---- MODULE Spec2Model ----
(***************************************************************************)
(* Model of the NestJS dependency analyzer:                                *)
(*   - AstParser (src/src/parsers/ast.parser.ts): extraction of one        *)
(*     module's metadata from the syntax tree of one source file;          *)
(*   - DependencyAnalyzer (src/unnamed/part_001): registration of the      *)
(*     per-file results in the project mapping and cross-file linking.     *)
(* A syntax tree is a record tagged by `kind`, after the TypeScript node   *)
(* kinds the parser tests for (ts.isIdentifier, ts.isCallExpression, ...). *)
(***************************************************************************)
EXTENDS Integers, Sequences, FiniteSets, TLC

(***************************************************************************)
(* JavaScript's `undefined`, for optional string fields and for optional   *)
(* object fields.                                                          *)
(***************************************************************************)
undefined == "<undefined>"

undefinedObject == [kind |-> "undefined"]

(***************************************************************************)
(* Syntax-tree nodes.                                                      *)
(***************************************************************************)
Identifier(text) == [kind |-> "Identifier", text |-> text]

StringLiteral(text) == [kind |-> "StringLiteral", text |-> text]

\* Any expression the parser has no test for: a number, a template, a spread...
OtherExpression == [kind |-> "OtherExpression"]

\* A block body `{ return <returns>; }`.
Block(returns) == [kind |-> "Block", returns |-> returns]

\* `() => body`; body is an expression or a Block.
ArrowFunction(body) == [kind |-> "ArrowFunction", body |-> body]

\* `function () { return <returns>; }`.
FunctionExpression(returns) == [kind |-> "FunctionExpression", body |-> Block(returns)]

ArrayLiteralExpression(elements) ==
    [kind |-> "ArrayLiteralExpression", elements |-> elements]

\* name: initializer, with an identifier as the property name.
PropertyAssignment(name, initializer) == [name |-> name, initializer |-> initializer]

ObjectLiteralExpression(properties) ==
    [kind |-> "ObjectLiteralExpression", properties |-> properties]

PropertyAccessExpression(expression, name) ==
    [kind |-> "PropertyAccessExpression", expression |-> expression, name |-> name]

CallExpression(expression, arguments) ==
    [kind |-> "CallExpression", expression |-> expression, arguments |-> arguments]

\* A decorator `@expression`.
Decorator(expression) == [expression |-> expression]

\* A constructor parameter; typeName is the name of its type reference, or
\* `undefined` when it carries none (no annotation, a primitive keyword type).
ParameterDeclaration(typeName) == [typeName |-> typeName]

\* A top-level class; name is `undefined` for an anonymous class; constructors
\* is the sequence of its constructor members, each a sequence of parameters.
ClassDeclaration(name, decorators, constructors) ==
    [name |-> name, decorators |-> decorators, constructors |-> constructors]

\* `import <bindings> from '<moduleSpecifier>'`: bindings are the local names
\* bound (default, named or namespace); moduleSpecifier is the sequence of the
\* specifier's '/'-separated segments.
ImportDeclaration(bindings, moduleSpecifier) ==
    [bindings |-> bindings, moduleSpecifier |-> moduleSpecifier]

\* ts.createSourceFile(fileName, sourceCode, ...): the top-level statements,
\* with the class declarations and the import declarations each in source order.
SourceFile(fileName, classes, importDeclarations) ==
    [fileName |-> fileName, classes |-> classes, importDeclarations |-> importDeclarations]

IsIdentifier(node) == node.kind = "Identifier"

IsStringLiteral(node) == node.kind = "StringLiteral"

IsCallExpression(node) == node.kind = "CallExpression"

IsArrowFunction(node) == node.kind = "ArrowFunction"

IsArrayLiteralExpression(node) == node.kind = "ArrayLiteralExpression"

IsObjectLiteralExpression(node) == node.kind = "ObjectLiteralExpression"

IsPropertyAccessExpression(node) == node.kind = "PropertyAccessExpression"

(***************************************************************************)
(* node.getText(): the source text of an identifier or of a property       *)
(* access chain written without inner whitespace.                          *)
(***************************************************************************)
RECURSIVE GetText(_)
GetText(node) ==
    IF IsIdentifier(node) THEN node.text
    ELSE IF IsPropertyAccessExpression(node)
         THEN GetText(node.expression) \o "." \o node.name
         ELSE IF IsCallExpression(node)
              THEN GetText(node.expression) \o "()"
              ELSE "<expr>"

\* [...new Set(s)]: first occurrences, in order.
RECURSIVE Unique(_)
Unique(s) ==
    IF s = <<>> THEN <<>>
    ELSE LET init == Unique(SubSeq(s, 1, Len(s) - 1))
             last == s[Len(s)]
         IN IF \E i \in 1..Len(init) : init[i] = last THEN init ELSE Append(init, last)

(***************************************************************************)
(* AstParser: lookups in the syntax tree.                                  *)
(***************************************************************************)
\* The first property assignment of an object literal with the given name,
\* `undefinedObject` when there is none.
FindPropertyAssignment(node, propertyName) ==
    LET ps == node.properties
        hits == {i \in 1..Len(ps) : ps[i].name = propertyName}
    IN IF hits = {} THEN undefinedObject
       ELSE ps[CHOOSE i \in hits : \A j \in hits : i <= j]

\* The text of an identifier or string-literal initializer, else `undefined`.
GetPropertyValue(node, propertyName) ==
    LET property == FindPropertyAssignment(node, propertyName)
    IN IF property = undefinedObject THEN undefined
       ELSE IF IsIdentifier(property.initializer) THEN property.initializer.text
       ELSE IF IsStringLiteral(property.initializer) THEN property.initializer.text
       ELSE undefined

\* string[] | undefined: [defined, value]; value holds the texts of the
\* identifier elements of an array-literal initializer (other elements are
\* filtered out); not defined when the property is absent or no array.
GetArrayPropertyValue(node, propertyName) ==
    LET property == FindPropertyAssignment(node, propertyName)
    IN IF property = undefinedObject \/ ~IsArrayLiteralExpression(property.initializer)
       THEN [defined |-> FALSE, value |-> <<>>]
       ELSE LET ids == SelectSeq(property.initializer.elements, IsIdentifier)
            IN [defined |-> TRUE, value |-> [i \in 1..Len(ids) |-> ids[i].text]]

\* Whether a decorator is a call `@name(...)` or `@ns.name(...)`.
DecoratorMatches(decorator, name) ==
    /\ IsCallExpression(decorator.expression)
    /\ LET expression == decorator.expression.expression
       IN IF IsIdentifier(expression) THEN expression.text = name
          ELSE IF IsPropertyAccessExpression(expression) THEN expression.name = name
          ELSE FALSE

FindDecorator(node, name) ==
    LET ds == node.decorators
        hits == {i \in 1..Len(ds) : DecoratorMatches(ds[i], name)}
    IN IF hits = {} THEN undefinedObject
       ELSE ds[CHOOSE i \in hits : \A j \in hits : i <= j]

HasDecorator(node, name) == FindDecorator(node, name) # undefinedObject

\* String.prototype.includes over the class names of the model: the names
\* holding the substring 'Unknown', and those holding 'Angular'.
IncludesUnknown(text) == text \in {"UnknownModule", "MyUnknownModule"}

IncludesAngular(text) == text \in {"AngularModule"}

\* The first top-level class that is named, carries @Module(...) and is not
\* filtered out by its name; `undefinedObject` when there is none.
FindModuleClass(sourceFile) ==
    LET cs == sourceFile.classes
        ok(c) == /\ c.name # undefined
                 /\ c.name # ""
                 /\ HasDecorator(c, "Module")
                 /\ ~IncludesUnknown(c.name)
                 /\ ~IncludesAngular(c.name)
        hits == {i \in 1..Len(cs) : ok(cs[i])}
    IN IF hits = {} THEN undefinedObject
       ELSE cs[CHOOSE i \in hits : \A j \in hits : i <= j]

FindClassDeclaration(sourceFile, className) ==
    LET cs == sourceFile.classes
        hits == {i \in 1..Len(cs) : cs[i].name = className}
    IN IF hits = {} THEN undefinedObject
       ELSE cs[CHOOSE i \in hits : \A j \in hits : i <= j]

\* The type names of the first constructor's parameters that carry a type
\* reference, in parameter order.
ExtractConstructorDependencies(node) ==
    IF node.constructors = <<>> THEN <<>>
    ELSE LET typed == SelectSeq(node.constructors[1], LAMBDA p : p.typeName # undefined)
         IN [i \in 1..Len(typed) |-> typed[i].typeName]

IsClassInjectable(sourceFile, className) ==
    LET classDecl == FindClassDeclaration(sourceFile, className)
    IN IF classDecl # undefinedObject THEN HasDecorator(classDecl, "Injectable") ELSE FALSE

\* The text of a module specifier given as its '/'-separated segments.
RECURSIVE JoinPath(_)
JoinPath(segments) ==
    IF segments = <<>> THEN ""
    ELSE IF Len(segments) = 1 THEN segments[1]
    ELSE segments[1] \o "/" \o JoinPath(Tail(segments))

\* The specifier of the first import declaration binding the identifier's text;
\* a specifier under '@nestjs/' is cut to its last segment.
ResolveImportPath(sourceFile, identifier) ==
    LET ds == sourceFile.importDeclarations
        hits == {i \in 1..Len(ds) : GetText(identifier) \in ds[i].bindings}
    IN IF hits = {} THEN undefined
       ELSE LET segments == ds[CHOOSE i \in hits : \A j \in hits : i <= j].moduleSpecifier
            IN IF Len(segments) >= 2 /\ segments[1] = "@nestjs"
               THEN segments[Len(segments)]
               ELSE JoinPath(segments)

(***************************************************************************)
(* AstParser: imports.  The operators that mint placeholder names take the *)
(* parser's uniqueIdCounter and return it advanced.                        *)
(***************************************************************************)
CreateImportMetadata(sourceFile, identifier) ==
    [name |-> identifier.text,
     path |-> ResolveImportPath(sourceFile, identifier),
     isAsync |-> FALSE,
     dependencies |-> <<>>]

CreateUnknownImport(uniqueIdCounter) ==
    [import |-> [name |-> "UnknownModule_" \o ToString(uniqueIdCounter),
                 isAsync |-> FALSE,
                 dependencies |-> <<>>],
     uniqueIdCounter |-> uniqueIdCounter + 1]

\* ParseAsyncImport without its forwardRef case: a forwardRef call is read as
\* any other call with an identifier callee.
ParseAsyncImportWithoutForwardRef(sourceFile, callExpression, uniqueIdCounter) ==
    LET callee == callExpression.expression
    IN IF ~IsIdentifier(callee)
       THEN IF IsPropertyAccessExpression(callee)
            THEN [import |-> [name |-> GetText(callee.expression),
                              path |-> ResolveImportPath(sourceFile, callee.expression),
                              isAsync |-> TRUE,
                              dependencies |-> <<>>],
                  uniqueIdCounter |-> uniqueIdCounter]
            ELSE CreateUnknownImport(uniqueIdCounter)
       ELSE [import |-> [name |-> callee.text,
                         path |-> ResolveImportPath(sourceFile, callee),
                         isAsync |-> TRUE,
                         dependencies |-> <<>>],
             uniqueIdCounter |-> uniqueIdCounter]

ParseAsyncImport(sourceFile, callExpression, uniqueIdCounter) ==
    LET callee == callExpression.expression
        args == callExpression.arguments
    IN IF IsIdentifier(callee) /\ callee.text = "forwardRef"
       THEN IF /\ args # <<>>
               /\ IsArrowFunction(args[1])
               /\ IsIdentifier(args[1].body)
            THEN [import |-> [name |-> args[1].body.text,
                              path |-> ResolveImportPath(sourceFile, args[1].body),
                              isAsync |-> TRUE,
                              isForwardReference |-> TRUE,
                              dependencies |-> <<>>],
                  uniqueIdCounter |-> uniqueIdCounter]
            ELSE CreateUnknownImport(uniqueIdCounter)
       ELSE IF ~IsIdentifier(callee)
            THEN IF IsPropertyAccessExpression(callee)
                 THEN [import |-> [name |-> GetText(callee.expression),
                                   path |-> ResolveImportPath(sourceFile, callee.expression),
                                   isAsync |-> TRUE,
                                   dependencies |-> <<>>],
                       uniqueIdCounter |-> uniqueIdCounter]
                 ELSE CreateUnknownImport(uniqueIdCounter)
            ELSE [import |-> [name |-> callee.text,
                              path |-> ResolveImportPath(sourceFile, callee),
                              isAsync |-> TRUE,
                              dependencies |-> <<>>],
                  uniqueIdCounter |-> uniqueIdCounter]

\* One element of the imports array.
ParseImportElement(sourceFile, element, uniqueIdCounter) ==
    IF IsIdentifier(element)
    THEN [import |-> CreateImportMetadata(sourceFile, element),
          uniqueIdCounter |-> uniqueIdCounter]
    ELSE IF IsCallExpression(element)
         THEN ParseAsyncImport(sourceFile, element, uniqueIdCounter)
         ELSE CreateUnknownImport(uniqueIdCounter)

\* elements.map(...), left to right: [imports, uniqueIdCounter].
RECURSIVE MapImportElements(_, _, _)
MapImportElements(sourceFile, elements, uniqueIdCounter) ==
    IF elements = <<>> THEN [imports |-> <<>>, uniqueIdCounter |-> uniqueIdCounter]
    ELSE LET first == ParseImportElement(sourceFile, Head(elements), uniqueIdCounter)
             rest == MapImportElements(sourceFile, Tail(elements), first.uniqueIdCounter)
         IN [imports |-> <<first.import>> \o rest.imports,
             uniqueIdCounter |-> rest.uniqueIdCounter]

ExtractImports(sourceFile, node, uniqueIdCounter) ==
    LET imports == FindPropertyAssignment(node, "imports")
    IN IF imports = undefinedObject \/ ~IsArrayLiteralExpression(imports.initializer)
       THEN [imports |-> <<>>, uniqueIdCounter |-> uniqueIdCounter]
       ELSE MapImportElements(sourceFile, imports.initializer.elements, uniqueIdCounter)

\* The identifier elements of the named array property, as names.
ExtractNames(node, propertyName) ==
    LET prop == FindPropertyAssignment(node, propertyName)
    IN IF prop = undefinedObject \/ ~IsArrayLiteralExpression(prop.initializer)
       THEN <<>>
       ELSE LET ids == SelectSeq(prop.initializer.elements, IsIdentifier)
            IN [i \in 1..Len(ids) |-> ids[i].text]

ExtractExports(node) == ExtractNames(node, "exports")

ExtractControllers(node) == ExtractNames(node, "controllers")

(***************************************************************************)
(* AstParser: entity count.  `const [x] = element.arguments` yields        *)
(* undefined for a call without arguments, and the TypeScript type guards  *)
(* (ts.isArrayLiteralExpression, ts.isObjectLiteralExpression) read        *)
(* node.kind, so they raise a TypeError on undefined.                      *)
(***************************************************************************)
FirstArgument(callExpression) ==
    IF callExpression.arguments = <<>> THEN undefinedObject
    ELSE callExpression.arguments[1]

\* The check for `<calleeText>([...])`: [threw, count].
ForFeatureCount(element, calleeText) ==
    IF IsPropertyAccessExpression(element.expression) /\ GetText(element.expression) = calleeText
    THEN LET entityArray == FirstArgument(element)
         IN IF entityArray = undefinedObject THEN [threw |-> TRUE, count |-> 0]
            ELSE IF IsArrayLiteralExpression(entityArray)
                 THEN [threw |-> FALSE, count |-> Len(entityArray.elements)]
                 ELSE [threw |-> FALSE, count |-> 0]
    ELSE [threw |-> FALSE, count |-> 0]

\* The check for `TypeOrmModule.<method>({ entities: [...] })`: [threw, count].
ForRootCount(element) ==
    IF /\ IsPropertyAccessExpression(element.expression)
       /\ GetText(element.expression.expression) = "TypeOrmModule"
    THEN LET config == FirstArgument(element)
         IN IF config = undefinedObject THEN [threw |-> TRUE, count |-> 0]
            ELSE IF IsObjectLiteralExpression(config)
                 THEN LET entitiesProperty == FindPropertyAssignment(config, "entities")
                      IN IF /\ entitiesProperty # undefinedObject
                            /\ IsArrayLiteralExpression(entitiesProperty.initializer)
                         THEN [threw |-> FALSE,
                               count |-> Len(entitiesProperty.initializer.elements)]
                         ELSE [threw |-> FALSE, count |-> 0]
                 ELSE [threw |-> FALSE, count |-> 0]
    ELSE [threw |-> FALSE, count |-> 0]

\* The four checks of the loop body, in order; the first that raises ends it.
ElementEntityCount(element) ==
    IF ~IsCallExpression(element) THEN [threw |-> FALSE, count |-> 0]
    ELSE LET c1 == ForFeatureCount(element, "TypeOrmModule.forFeature")
             c2 == ForRootCount(element)
             c3 == ForFeatureCount(element, "MongooseModule.forFeature")
             c4 == ForFeatureCount(element, "SequelizeModule.forFeature")
         IN IF c1.threw THEN c1
            ELSE IF c2.threw THEN c2
            ELSE IF c3.threw THEN c3
            ELSE IF c4.threw THEN c4
            ELSE [threw |-> FALSE, count |-> c1.count + c2.count + c3.count + c4.count]

RECURSIVE SumEntityCounts(_)
SumEntityCounts(elements) ==
    IF elements = <<>> THEN [threw |-> FALSE, count |-> 0]
    ELSE LET first == ElementEntityCount(Head(elements))
         IN IF first.threw THEN first
            ELSE LET rest == SumEntityCounts(Tail(elements))
                 IN [threw |-> rest.threw, count |-> first.count + rest.count]

ExtractEntityCount(node) ==
    LET imports == FindPropertyAssignment(node, "imports")
    IN IF imports = undefinedObject \/ ~IsArrayLiteralExpression(imports.initializer)
       THEN [threw |-> FALSE, count |-> 0]
       ELSE SumEntityCounts(imports.initializer.elements)

(***************************************************************************)
(* AstParser: providers.                                                   *)
(***************************************************************************)
\* JavaScript truthiness of an optional string.
Truthy(text) == text # undefined /\ text # ""

\* { ...record, [field]: value }
WithField(record, field, value) ==
    [f \in DOMAIN record \cup {field} |-> IF f = field THEN value ELSE record[f]]

\* Map.prototype.set on a cache keyed by name.
CacheSet(cache, key, value) ==
    [k \in DOMAIN cache \cup {key} |-> IF k = key THEN value ELSE cache[k]]

EmptyCache == [k \in {} |-> undefinedObject]

\* Variant of CreateProviderMetadata a slip would give: a class provider
\* written as a bare identifier carries no provide token.
CreateProviderMetadataWithoutProvide(sourceFile, identifier) ==
    LET classDecl == FindClassDeclaration(sourceFile, identifier.text)
    IN [name |-> identifier.text,
        type |-> "class",
        dependencies |-> IF classDecl # undefinedObject
                         THEN ExtractConstructorDependencies(classDecl) ELSE <<>>,
        isInjectable |-> IF classDecl # undefinedObject
                         THEN HasDecorator(classDecl, "Injectable") ELSE FALSE,
        provide |-> undefined]

CreateProviderMetadata(sourceFile, identifier) ==
    LET classDecl == FindClassDeclaration(sourceFile, identifier.text)
    IN [name |-> identifier.text,
        type |-> "class",
        dependencies |-> IF classDecl # undefinedObject
                         THEN ExtractConstructorDependencies(classDecl) ELSE <<>>,
        isInjectable |-> IF classDecl # undefinedObject
                         THEN HasDecorator(classDecl, "Injectable") ELSE FALSE,
        provide |-> identifier.text]

\* The provider type chosen by the if / else-if chain on the field values.
ProviderTypeOf(useClass, useFactory, useValue) ==
    IF Truthy(useClass) THEN "class"
    ELSE IF Truthy(useFactory) THEN "factory"
    ELSE IF useValue # undefined THEN "value"
    ELSE "class"

\* The metadata of an object-literal provider, `undefinedObject` for null.
ParseProviderObjectLiteral(sourceFile, node) ==
    LET provide == GetPropertyValue(node, "provide")
        useClass == GetPropertyValue(node, "useClass")
        useValue == GetPropertyValue(node, "useValue")
        useFactory == GetPropertyValue(node, "useFactory")
        type == ProviderTypeOf(useClass, useFactory, useValue)
        classDecl == FindClassDeclaration(sourceFile, useClass)
        inject == GetArrayPropertyValue(node, "inject")
        dependencies ==
            IF Truthy(useClass)
            THEN IF classDecl # undefinedObject
                 THEN ExtractConstructorDependencies(classDecl) ELSE <<>>
            ELSE IF Truthy(useFactory)
                 THEN IF inject.defined THEN inject.value ELSE <<>>
                 ELSE <<>>
    IN IF ~Truthy(provide) THEN undefinedObject
       ELSE [name |-> provide,
             type |-> type,
             dependencies |-> dependencies,
             isInjectable |-> /\ type = "class"
                              /\ IsClassInjectable(sourceFile,
                                     IF Truthy(useClass) THEN useClass ELSE provide),
             provide |-> provide,
             useClass |-> useClass,
             useValue |-> useValue,
             useFactory |-> useFactory,
             inject |-> dependencies]

\* ParseProvider without its bare-identifier case.
ParseProviderObjectsOnly(sourceFile, element) ==
    IF IsObjectLiteralExpression(element)
    THEN ParseProviderObjectLiteral(sourceFile, element)
    ELSE undefinedObject

\* The metadata of one element of the providers array, `undefinedObject` for null.
ParseProvider(sourceFile, element) ==
    IF IsIdentifier(element) THEN CreateProviderMetadata(sourceFile, element)
    ELSE IF IsObjectLiteralExpression(element)
         THEN ParseProviderObjectLiteral(sourceFile, element)
         ELSE undefinedObject

\* elements.map(parseProvider).filter(p => !!p), with the providerCache.set of
\* every provider produced, left to right: [providers, providerCache].
RECURSIVE MapProviderElements(_, _, _)
MapProviderElements(sourceFile, elements, providerCache) ==
    IF elements = <<>> THEN [providers |-> <<>>, providerCache |-> providerCache]
    ELSE LET provider == ParseProvider(sourceFile, Head(elements))
             cache1 == IF provider = undefinedObject THEN providerCache
                       ELSE CacheSet(providerCache, provider.name, provider)
             rest == MapProviderElements(sourceFile, Tail(elements), cache1)
         IN [providers |-> (IF provider = undefinedObject THEN <<>> ELSE <<provider>>)
                           \o rest.providers,
             providerCache |-> rest.providerCache]

ExtractProviders(sourceFile, node, providerCache) ==
    LET providers == FindPropertyAssignment(node, "providers")
    IN IF providers = undefinedObject \/ ~IsArrayLiteralExpression(providers.initializer)
       THEN [providers |-> <<>>, providerCache |-> providerCache]
       ELSE MapProviderElements(sourceFile, providers.initializer.elements, providerCache)

(***************************************************************************)
(* AstParser: second-pass enrichment.                                      *)
(***************************************************************************)
GetModuleDependencies(moduleCache, moduleName) ==
    IF moduleName \notin DOMAIN moduleCache THEN <<>>
    ELSE LET cachedModule == moduleCache[moduleName]
         IN [i \in 1..Len(cachedModule.imports) |-> cachedModule.imports[i].name]
            \o [i \in 1..Len(cachedModule.providers) |-> cachedModule.providers[i].name]

\* directDeps.flatMap((dep) => this.getProviderDependencyTree(dep, visited)),
\* with the body of getProviderDependencyTree for each dep in turn:
\* [deps, visited], visited being the one set shared, and grown, by all the
\* recursive calls.
RECURSIVE FlatMapDependencyTree(_, _, _)
FlatMapDependencyTree(providerCache, deps, visited) ==
    IF deps = <<>> THEN [deps |-> <<>>, visited |-> visited]
    ELSE LET providerName == Head(deps)
             first ==
                 IF providerName \in visited THEN [deps |-> <<>>, visited |-> visited]
                 ELSE IF providerName \notin DOMAIN providerCache
                 THEN [deps |-> <<>>, visited |-> visited \cup {providerName}]
                 ELSE LET directDeps == providerCache[providerName].dependencies
                          nested == FlatMapDependencyTree(providerCache, directDeps,
                                                          visited \cup {providerName})
                      IN [deps |-> Unique(directDeps \o nested.deps),
                          visited |-> nested.visited]
             rest == FlatMapDependencyTree(providerCache, Tail(deps), first.visited)
         IN [deps |-> first.deps \o rest.deps, visited |-> rest.visited]

\* Variant of GetProviderDependencyTree a slip would give: the direct
\* dependencies alone, nothing nested.
DirectDependenciesOnly(providerCache, providerName, visited) ==
    [deps |-> IF providerName \in visited \/ providerName \notin DOMAIN providerCache
              THEN <<>>
              ELSE Unique(providerCache[providerName].dependencies),
     visited |-> visited \cup {providerName}]

\* getProviderDependencyTree(providerName, visited): [deps, visited].
GetProviderDependencyTree(providerCache, providerName, visited) ==
    FlatMapDependencyTree(providerCache, <<providerName>>, visited)

EnrichWithSecondLevelDependencies(module, moduleCache, providerCache) ==
    [module EXCEPT
        !.imports = [i \in 1..Len(module.imports) |->
            WithField(module.imports[i], "dependencies",
                      GetModuleDependencies(moduleCache, module.imports[i].name))],
        !.providers = [i \in 1..Len(module.providers) |->
            WithField(module.providers[i], "dependencies",
                      GetProviderDependencyTree(providerCache,
                                                module.providers[i].name, {}).deps)]]

(***************************************************************************)
(* AstParser.parseModule.  An AstParser is built for one file and used     *)
(* once: its counter starts at InitialUniqueIdCounter, its caches empty.   *)
(***************************************************************************)
InitialUniqueIdCounter == 1

GenerateUniqueName(prefix, uniqueIdCounter) == prefix \o "_" \o ToString(uniqueIdCounter)

CreateEmptyModuleMetadata(uniqueIdCounter) ==
    [name |-> GenerateUniqueName("Module", uniqueIdCounter),
     imports |-> <<>>,
     exports |-> <<>>,
     providers |-> <<>>,
     controllers |-> <<>>,
     entityCount |-> 0]

\* The first argument of the @Module(...) call of a class; `undefinedObject`
\* when the decorator is missing or no call, or when the call has no argument.
ModuleDecoratorArgument(node) ==
    LET decorator == FindDecorator(node, "Module")
    IN IF decorator = undefinedObject THEN undefinedObject
       ELSE IF ~IsCallExpression(decorator.expression) THEN undefinedObject
       ELSE FirstArgument(decorator.expression)

\* The record parseModuleDecorator returns for an object-literal argument, its
\* fields evaluated in source order, entityCount last: a TypeError raised by
\* extractEntityCount comes after the imports and providers were extracted.
ModuleMetadataOf(sourceFile, node, argument, imports, providers, entityCount) ==
    [threw |-> entityCount.threw,
     metadata |->
         IF entityCount.threw THEN undefinedObject
         ELSE [name |-> node.name,
               filePath |-> sourceFile.fileName,
               imports |-> imports.imports,
               exports |-> ExtractExports(argument),
               providers |-> providers.providers,
               controllers |-> ExtractControllers(argument),
               entityCount |-> entityCount.count],
     uniqueIdCounter |-> imports.uniqueIdCounter,
     providerCache |-> providers.providerCache]

\* parseModuleDecorator from the decorator's argument on.
ParseModuleDecoratorArgument(sourceFile, node, argument, uniqueIdCounter, providerCache) ==
    IF argument = undefinedObject \/ ~IsObjectLiteralExpression(argument)
    THEN [threw |-> FALSE,
          metadata |-> CreateEmptyModuleMetadata(uniqueIdCounter),
          uniqueIdCounter |-> uniqueIdCounter + 1,
          providerCache |-> providerCache]
    ELSE ModuleMetadataOf(sourceFile, node, argument,
                          ExtractImports(sourceFile, argument, uniqueIdCounter),
                          ExtractProviders(sourceFile, argument, providerCache),
                          ExtractEntityCount(argument))

\* [threw, metadata, uniqueIdCounter, providerCache]
ParseModuleDecorator(sourceFile, node, uniqueIdCounter, providerCache) ==
    ParseModuleDecoratorArgument(sourceFile, node, ModuleDecoratorArgument(node),
                                 uniqueIdCounter, providerCache)

\* parseModule from the result of parseModuleDecorator on.
ParseModuleMetadata(parsed) ==
    IF parsed.threw
    THEN [outcome |-> "throw", metadata |-> undefinedObject,
          uniqueIdCounter |-> parsed.uniqueIdCounter,
          providerCache |-> parsed.providerCache, moduleCache |-> EmptyCache]
    ELSE IF parsed.metadata.name = ""
    THEN [outcome |-> "null", metadata |-> undefinedObject,
          uniqueIdCounter |-> parsed.uniqueIdCounter,
          providerCache |-> parsed.providerCache, moduleCache |-> EmptyCache]
    ELSE [outcome |-> "module",
          metadata |-> EnrichWithSecondLevelDependencies(
                           parsed.metadata,
                           CacheSet(EmptyCache, parsed.metadata.name, parsed.metadata),
                           parsed.providerCache),
          uniqueIdCounter |-> parsed.uniqueIdCounter,
          providerCache |-> parsed.providerCache,
          moduleCache |-> CacheSet(EmptyCache, parsed.metadata.name,
                              EnrichWithSecondLevelDependencies(
                                  parsed.metadata,
                                  CacheSet(EmptyCache, parsed.metadata.name, parsed.metadata),
                                  parsed.providerCache))]

\* parseModule once the module class was looked up.
ParseModuleClass(sourceFile, moduleClass) ==
    IF moduleClass = undefinedObject
    THEN [outcome |-> "null", metadata |-> undefinedObject,
          uniqueIdCounter |-> InitialUniqueIdCounter,
          providerCache |-> EmptyCache, moduleCache |-> EmptyCache]
    ELSE ParseModuleMetadata(ParseModuleDecorator(sourceFile, moduleClass,
                                                  InitialUniqueIdCounter, EmptyCache))

\* parser.parseModule() on a fresh parser of sourceFile:
\* outcome "null" (no module), "module" (metadata returned) or "throw" (a
\* TypeError left the call); with the parser's fields as the call leaves them.
ParseModule(sourceFile) == ParseModuleClass(sourceFile, FindModuleClass(sourceFile))

(***************************************************************************)
(* Bounded syntax trees: the source files the parser is run on.            *)
(***************************************************************************)
\* Longest imports array and longest providers array built from the core
\* element sets; longest entity array; longest inject array.
MaxImports == 2

MaxProviders == 2

MaxEntities == 3

MaxInject == 2

\* All sequences over S of length at most n.
SeqsUpTo(S, n) == UNION {[1..k -> S] : k \in 0..n}

\* An array literal of n entity classes.
EntityArray(n) == ArrayLiteralExpression([i \in 1..n |-> Identifier("Entity")])

\* First arguments of a configured-module call, as sequences of arguments:
\* none, [E...], { entities: [E...] }, { }, { entities: <expr> }, <identifier>.
CallArguments ==
    {<<>>}
    \cup {<<EntityArray(n)>> : n \in 0..MaxEntities}
    \cup {<<ObjectLiteralExpression(<<PropertyAssignment("entities", EntityArray(n))>>)>> :
            n \in 0..MaxEntities}
    \cup {<<ObjectLiteralExpression(<<>>)>>,
          <<ObjectLiteralExpression(<<PropertyAssignment("entities", Identifier("entities"))>>)>>,
          <<Identifier("config")>>}

\* Callees X.method and X.Y.method.
PropertyAccessCallees ==
    {PropertyAccessExpression(Identifier(x), m) :
        x \in {"TypeOrmModule", "MongooseModule", "SequelizeModule", "ConfigModule"},
        m \in {"forFeature", "forRoot", "forRootAsync"}}
    \cup {PropertyAccessExpression(
              PropertyAccessExpression(Identifier("Database"), "TypeOrmModule"), m) :
            m \in {"forFeature", "forRoot"}}

\* forwardRef(...) with each shape of argument list.
ForwardRefCalls ==
    {CallExpression(Identifier("forwardRef"), args) :
        args \in {<<>>,
                  <<ArrowFunction(Identifier("CatsModule"))>>,
                  <<ArrowFunction(Identifier("AppModule"))>>,
                  <<ArrowFunction(Block(Identifier("CatsModule")))>>,
                  <<ArrowFunction(OtherExpression)>>,
                  <<FunctionExpression(Identifier("CatsModule"))>>,
                  <<Identifier("CatsModule")>>,
                  <<ArrowFunction(Identifier("CatsModule")), Identifier("extra")>>}}

\* Every element of an imports array.
ImportElements ==
    {Identifier("CatsModule"), Identifier("AppModule"), Identifier("HttpModule"),
     OtherExpression, StringLiteral("CatsModule")}
    \cup ForwardRefCalls
    \cup {CallExpression(c, a) : c \in PropertyAccessCallees, a \in CallArguments}
    \cup {CallExpression(Identifier("registerAs"), a) : a \in {<<>>, <<EntityArray(1)>>}}
    \cup {CallExpression(CallExpression(Identifier("dynamic"), <<>>), <<>>),
          CallExpression(PropertyAccessExpression(
                             CallExpression(Identifier("dynamic"), <<>>), "forRoot"), <<>>)}

\* The elements that imports arrays of more than one element are built from.
CoreImportElements ==
    {Identifier("CatsModule"),
     OtherExpression,
     CallExpression(Identifier("forwardRef"), <<ArrowFunction(Identifier("CatsModule"))>>),
     CallExpression(Identifier("forwardRef"), <<>>),
     CallExpression(PropertyAccessExpression(Identifier("TypeOrmModule"), "forFeature"),
                    <<EntityArray(MaxEntities)>>),
     CallExpression(PropertyAccessExpression(Identifier("TypeOrmModule"), "forRoot"),
                    <<ObjectLiteralExpression(
                          <<PropertyAssignment("entities", EntityArray(1))>>)>>),
     CallExpression(PropertyAccessExpression(Identifier("MongooseModule"), "forFeature"),
                    <<EntityArray(2)>>),
     CallExpression(PropertyAccessExpression(Identifier("TypeOrmModule"), "forRoot"), <<>>),
     CallExpression(PropertyAccessExpression(Identifier("ConfigModule"), "forRoot"), <<>>)}

ImportArrays ==
    {<<e>> : e \in ImportElements} \cup SeqsUpTo(CoreImportElements, MaxImports)

\* Injection tokens, and the inject arrays built from them.
InjectTokens == {Identifier("CatsService"), Identifier("Logger"), StringLiteral("X")}

InjectArrays == {ArrayLiteralExpression(ts) : ts \in SeqsUpTo(InjectTokens, MaxInject)}

\* The initializers a binding field (useClass, useFactory, useValue) may hold.
BindingInitializers ==
    {Identifier("CatsService"), StringLiteral("text"), OtherExpression,
     ArrowFunction(OtherExpression), ObjectLiteralExpression(<<>>)}

\* The initializers of a provide field.
ProvideInitializers ==
    {Identifier("TOKEN"), StringLiteral("TOKEN"), StringLiteral(""),
     Identifier("CatsService"), OtherExpression}

\* The optional property `name: init` for every init of inits, or no property.
OptionalProperty(name, inits) == {<<>>} \cup {<<PropertyAssignment(name, i)>> : i \in inits}

\* Object-literal providers with at most one binding field.
SingleBindingProviders ==
    {ObjectLiteralExpression(p \o b \o i) :
        p \in OptionalProperty("provide", ProvideInitializers),
        b \in {<<>>} \cup {<<PropertyAssignment(f, v)>> :
                             f \in {"useClass", "useFactory", "useValue"},
                             v \in BindingInitializers},
        i \in OptionalProperty("inject", InjectArrays \cup {Identifier("tokens")})}

\* Object-literal providers with several binding fields.
MultiBindingProviders ==
    {ObjectLiteralExpression(<<PropertyAssignment("provide", StringLiteral("TOKEN"))>>
                             \o c \o f \o v
                             \o <<PropertyAssignment("inject",
                                     ArrayLiteralExpression(<<Identifier("Logger")>>))>>) :
        c \in OptionalProperty("useClass", {Identifier("CatsService"), OtherExpression}),
        f \in OptionalProperty("useFactory", {Identifier("create"), ArrowFunction(OtherExpression)}),
        v \in OptionalProperty("useValue", {Identifier("value"), OtherExpression})}

\* Every element of a providers array.
ProviderElements ==
    {Identifier("CatsService"), Identifier("Logger"), Identifier("Missing"),
     OtherExpression,
     CallExpression(Identifier("createProvider"), <<>>)}
    \cup SingleBindingProviders
    \cup MultiBindingProviders

\* { provide: token, useFactory: create, inject: [deps...] }
FactoryProvider(token, deps) ==
    ObjectLiteralExpression(
        <<PropertyAssignment("provide", token),
          PropertyAssignment("useFactory", Identifier("create")),
          PropertyAssignment("inject", ArrayLiteralExpression(deps))>>)

\* The elements that providers arrays of more than one element are built from.
CoreProviderElements ==
    {Identifier("CatsService"),
     Identifier("Logger"),
     OtherExpression,
     ObjectLiteralExpression(<<PropertyAssignment("useValue", StringLiteral("text"))>>),
     ObjectLiteralExpression(<<PropertyAssignment("provide", OtherExpression),
                               PropertyAssignment("useClass", Identifier("CatsService"))>>),
     ObjectLiteralExpression(<<PropertyAssignment("provide", StringLiteral("TOKEN")),
                               PropertyAssignment("useValue", StringLiteral("text"))>>),
     FactoryProvider(StringLiteral("TOKEN"), <<Identifier("Logger"), StringLiteral("X")>>),
     FactoryProvider(Identifier("Logger"), <<Identifier("CatsService")>>),
     FactoryProvider(Identifier("CatsRepository"), <<Identifier("CatsService")>>)}

ProviderArrays ==
    {<<e>> : e \in ProviderElements} \cup SeqsUpTo(CoreProviderElements, MaxProviders)

\* The classes every source file declares beside its module class.
LibraryClasses ==
    <<ClassDeclaration("CatsService",
          <<Decorator(CallExpression(Identifier("Injectable"), <<>>))>>,
          <<<<ParameterDeclaration("CatsRepository"),
              ParameterDeclaration(undefined),
              ParameterDeclaration("Logger")>>>>),
      ClassDeclaration("Logger", <<Decorator(Identifier("Injectable"))>>, <<>>),
      ClassDeclaration("CatsService", <<>>, <<<<ParameterDeclaration("Other")>>>>)>>

\* The import declarations every source file holds.
LibraryImports ==
    <<ImportDeclaration({"Module", "forwardRef"}, <<"@nestjs", "common">>),
      ImportDeclaration({"TypeOrmModule"}, <<"@nestjs", "typeorm">>),
      ImportDeclaration({"CatsModule"}, <<".", "cats", "cats.module">>),
      ImportDeclaration({"CatsModule"}, <<".", "shadowed">>)>>

\* The decorators a module class is written with.
ModuleDecorator(args) == Decorator(CallExpression(Identifier("Module"), args))

\* @Module({ imports: ..., providers: ..., exports: ..., controllers: ... }):
\* each argument is the sequence of the property, empty when it is left out.
ModuleOptions(imports, providers, exports, controllers) ==
    ObjectLiteralExpression(imports \o providers \o exports \o controllers)

\* A file declaring class `name` with the given decorators.
ModuleSourceFile(fileName, name, decorators) ==
    SourceFile(fileName, <<ClassDeclaration(name, decorators, <<>>)>> \o LibraryClasses,
               LibraryImports)

\* Source files for the parser: one family varies the imports array, one the
\* providers array, one the module class and its decorator, one mixes short
\* arrays of all four properties.
ImportsFamily ==
    {ModuleSourceFile("app.module.ts", "AppModule",
        <<ModuleDecorator(<<ModuleOptions(
              <<PropertyAssignment("imports", ArrayLiteralExpression(a))>>,
              <<PropertyAssignment("providers",
                    ArrayLiteralExpression(<<Identifier("CatsService")>>))>>,
              <<>>, <<>>)>>)>>) :
        a \in ImportArrays}

ProvidersFamily ==
    {ModuleSourceFile("app.module.ts", "AppModule",
        <<ModuleDecorator(<<ModuleOptions(
              <<>>,
              <<PropertyAssignment("providers", ArrayLiteralExpression(a))>>,
              <<>>, <<>>)>>)>>) :
        a \in ProviderArrays}

DecoratorFamily ==
    {ModuleSourceFile("app.module.ts", n, d) :
        n \in {"AppModule", undefined, "UnknownModule", "AngularModule"},
        d \in {<<>>,
               <<Decorator(Identifier("Module"))>>,
               <<ModuleDecorator(<<>>)>>,
               <<ModuleDecorator(<<Identifier("options")>>)>>,
               <<ModuleDecorator(<<ObjectLiteralExpression(<<>>)>>)>>,
               <<Decorator(CallExpression(Identifier("Injectable"), <<>>)),
                 Decorator(CallExpression(
                     PropertyAccessExpression(Identifier("common"), "Module"),
                     <<ModuleOptions(<<PropertyAssignment("imports", Identifier("list"))>>,
                                     <<PropertyAssignment("providers", Identifier("list"))>>,
                                     <<>>, <<>>)>>))>>}}

NameArrays ==
    {ArrayLiteralExpression(<<>>),
     ArrayLiteralExpression(<<Identifier("CatsService"), StringLiteral("text"),
                              Identifier("Logger")>>),
     Identifier("list")}

MixedFamily ==
    {ModuleSourceFile("app.module.ts", "AppModule",
        <<ModuleDecorator(<<ModuleOptions(
              <<PropertyAssignment("imports", ArrayLiteralExpression(i))>>,
              <<PropertyAssignment("providers", ArrayLiteralExpression(p))>>,
              e, c)>>)>>) :
        i \in SeqsUpTo(CoreImportElements, 1),
        p \in SeqsUpTo(CoreProviderElements, 1),
        e \in OptionalProperty("exports", NameArrays),
        c \in OptionalProperty("controllers", NameArrays)}

ParserSourceFiles == ImportsFamily \cup ProvidersFamily \cup DecoratorFamily \cup MixedFamily

(***************************************************************************)
(* State.                                                                  *)
(*   sourceFile, parsed   a parser run on its own: the file handed to      *)
(*                        new AstParser(...) and what parseModule() gave;  *)
(*   modules              DependencyAnalyzer.modules, the Map's entries in *)
(*                        insertion order; a module's providers field is   *)
(*                        the index in providerArrays of its array;        *)
(*   providerArrays       the provider arrays built so far (the provider   *)
(*                        objects of an array are shared by the module     *)
(*                        and by every snapshot of it, and linking         *)
(*                        assigns to their fields in place);               *)
(*   pc                   where the run stands;                            *)
(*   scanned              the files parsed so far, in traversal order,     *)
(*                        each with the outcome of its parse;              *)
(*   passes               the graph as each linking pass left it;          *)
(*   dot                  what DotVisualizer.generate() gave for the       *)
(*                        mapping analyze() returned;                      *)
(*   dependencyTree       what a call getProviderDependencyTree(name) on   *)
(*                        the parser's providerCache gave.                 *)
(***************************************************************************)
VARIABLES sourceFile, parsed, modules, providerArrays, pc, scanned, passes, dot, dependencyTree

vars == <<sourceFile, parsed, modules, providerArrays, pc, scanned, passes, dot, dependencyTree>>

NotParsed == [outcome |-> "pending"]

NotGenerated == [lines |-> <<>>, content |-> ""]

NotCalled == [providerName |-> undefined, dependencies |-> <<>>]

NoSourceFile == SourceFile(undefined, <<>>, <<>>)

(***************************************************************************)
(* The parser on its own: one file, one parseModule() call.                *)
(***************************************************************************)
InitParser ==
    /\ sourceFile \in ParserSourceFiles
    /\ parsed = NotParsed
    /\ modules = <<>>
    /\ providerArrays = <<>>
    /\ pc = "parser"
    /\ scanned = <<>>
    /\ passes = <<>>
    /\ dot = NotGenerated
    /\ dependencyTree = NotCalled

AstParserParseModule ==
    /\ pc = "parser"
    /\ parsed = NotParsed
    /\ parsed' = ParseModule(sourceFile)
    /\ UNCHANGED <<sourceFile, modules, providerArrays, pc, scanned, passes, dot, dependencyTree>>

NextParser == AstParserParseModule

SpecParser == InitParser /\ [][NextParser]_vars

(***************************************************************************)
(* DependencyAnalyzer: the project mapping and the scan.                   *)
(***************************************************************************)
\* A directory entry's name, as its '.'-separated parts.
RECURSIVE JoinName(_)
JoinName(parts) ==
    IF parts = <<>> THEN ""
    ELSE IF Len(parts) = 1 THEN parts[1]
    ELSE parts[1] \o "." \o JoinName(Tail(parts))

\* /\.module\.ts$/ on a name given as its '.'-separated parts.
IsNestModule(parts) ==
    /\ Len(parts) >= 3
    /\ parts[Len(parts) - 1] = "module"
    /\ parts[Len(parts)] = "ts"

\* Variant of ModulesSet a slip would give: the earlier registration is kept.
ModulesSetKeepingFirst(entries, key, value) ==
    IF \E i \in 1..Len(entries) : entries[i].name = key
    THEN entries
    ELSE Append(entries, value)

\* Map.prototype.set on the entries of this.modules: the value of an existing
\* key is replaced where it stands, a new key is added at the end.
ModulesSet(entries, key, value) ==
    IF \E i \in 1..Len(entries) : entries[i].name = key
    THEN [i \in 1..Len(entries) |-> IF entries[i].name = key THEN value ELSE entries[i]]
    ELSE Append(entries, value)

\* Array.from(this.modules.values()).find((m) => m.name === name)
FindModuleByName(entries, name) ==
    LET hits == {i \in 1..Len(entries) : entries[i].name = name}
    IN IF hits = {} THEN undefinedObject
       ELSE entries[CHOOSE i \in hits : \A j \in hits : i <= j]

(***************************************************************************)
(* DependencyAnalyzer.resolveModuleDependencies.                           *)
(***************************************************************************)
\* Variants of FirstMatch a slip would give: the last match in list order, and
\* a match on the name alone.
LastMatch(providers, name) ==
    LET hits == {i \in 1..Len(providers) :
                    providers[i].name = name \/ providers[i].provide = name}
    IN IF hits = {} THEN undefinedObject
       ELSE providers[CHOOSE i \in hits : \A j \in hits : i >= j]

\* module.providers.find((p) => p.name === name || p.provide === name)
FirstMatch(providers, name) ==
    LET hits == {i \in 1..Len(providers) :
                    providers[i].name = name \/ providers[i].provide = name}
    IN IF hits = {} THEN undefinedObject
       ELSE providers[CHOOSE i \in hits : \A j \in hits : i <= j]

\* The first provider, modules in mapping order and providers in list order,
\* whose name or provide is the given name.
RECURSIVE FindProviderByName(_, _, _)
FindProviderByName(entries, arrays, name) ==
    IF entries = <<>> THEN undefinedObject
    ELSE LET provider == FirstMatch(arrays[Head(entries).providers], name)
         IN IF provider # undefinedObject THEN provider
            ELSE FindProviderByName(Tail(entries), arrays, name)

\* LinkImport keeping the import's own path when no module is found.
LinkImportKeepingPath(entries, imp) ==
    LET importedModule == FindModuleByName(entries, imp.name)
    IN IF importedModule = undefinedObject
       THEN WithField(imp, "module", undefinedObject)
       ELSE WithField(WithField(imp, "path", importedModule.filePath),
                      "module", [name |-> importedModule.name,
                                 providers |-> importedModule.providers,
                                 controllers |-> importedModule.controllers])

\* { ...imp, path: importedModule?.filePath, module: importedModule ? {...} : undefined }
\* The snapshot's providers field is the imported module's own array.
LinkImport(entries, imp) ==
    LET importedModule == FindModuleByName(entries, imp.name)
    IN IF importedModule = undefinedObject
       THEN WithField(WithField(imp, "path", undefined), "module", undefinedObject)
       ELSE WithField(WithField(imp, "path", importedModule.filePath),
                      "module", [name |-> importedModule.name,
                                 providers |-> importedModule.providers,
                                 controllers |-> importedModule.controllers])

\* resolvedProvider?.name ?? dep
ResolveDependency(entries, arrays, dep) ==
    LET resolvedProvider == FindProviderByName(entries, arrays, dep)
    IN IF resolvedProvider # undefinedObject THEN resolvedProvider.name ELSE dep

\* The body of this.modules.forEach for the i-th entry: its imports are
\* replaced, then the dependencies of its provider objects are assigned.
LinkModule(entries, arrays, i) ==
    LET module == entries[i]
        linked == [module EXCEPT
                     !.imports = [k \in 1..Len(module.imports) |->
                                     LinkImport(entries, module.imports[k])]]
        entries1 == [entries EXCEPT ![i] = linked]
        providers == arrays[module.providers]
    IN [modules |-> entries1,
        providerArrays |->
            [arrays EXCEPT ![module.providers] =
                [k \in 1..Len(providers) |->
                    [providers[k] EXCEPT !.dependencies =
                        [d \in 1..Len(providers[k].dependencies) |->
                            ResolveDependency(entries1, arrays,
                                              providers[k].dependencies[d])]]]]]

\* The forEach from the i-th entry on: [modules, providerArrays].
RECURSIVE LinkModulesFrom(_, _, _)
LinkModulesFrom(entries, arrays, i) ==
    IF i > Len(entries) THEN [modules |-> entries, providerArrays |-> arrays]
    ELSE LET step == LinkModule(entries, arrays, i)
         IN LinkModulesFrom(step.modules, step.providerArrays, i + 1)

LinkedGraph(entries, arrays) == LinkModulesFrom(entries, arrays, 1)

\* The graph as a caller reads it: every providers field, of a module and of a
\* snapshot, followed to the array it denotes.
GraphView(entries, arrays) ==
    [i \in 1..Len(entries) |->
        [entries[i] EXCEPT
            !.providers = arrays[entries[i].providers],
            !.imports = [k \in 1..Len(entries[i].imports) |->
                LET imp == entries[i].imports[k]
                IN IF "module" \in DOMAIN imp /\ imp.module # undefinedObject
                   THEN [imp EXCEPT !.module.providers = arrays[imp.module.providers]]
                   ELSE imp]]]

(***************************************************************************)
(* DotVisualizer: the DOT document of a module mapping.                    *)
(***************************************************************************)
\* String.prototype.replace with a global one-character pattern.
RECURSIVE ReplaceAll(_, _, _)
ReplaceAll(text, char, replacement) ==
    IF text = "" THEN ""
    ELSE (IF Head(text) = char THEN replacement ELSE Head(text))
         \o ReplaceAll(SubSeq(text, 2, Len(text)), char, replacement)

\* name.replace(/"/g, '\\"')
EscapeName(name) == ReplaceAll(name, "\"", "\\\"")

\* label.replace(/"/g, '\\"').replace(/\n/g, '\\n')
EscapeLabel(label) == ReplaceAll(ReplaceAll(label, "\"", "\\\""), "\n", "\\n")

\* The node statement of one entry of the mapping.
NodeStatement(module) ==
    "  \"" \o EscapeName(module.name) \o "\" [label=\""
    \o EscapeLabel(module.name \o "\\n"
                   \o "Controllers: " \o ToString(Len(module.controllers)) \o "\\n"
                   \o "Providers: " \o ToString(Len(module.providers)) \o "\\n"
                   \o "Imports: " \o ToString(Len(module.imports)) \o "\\n"
                   \o "Entities: " \o ToString(module.entityCount))
    \o "\"];"

\* Variant of EdgeStyle a slip would give: every import edge in the plain style.
EdgeStylePlain(imp) == "[label=\"imports\"]"

\* imp.isForwardReference ? ... : ...
EdgeStyle(imp) ==
    IF "isForwardReference" \in DOMAIN imp /\ imp.isForwardReference
    THEN "[label=\"imports (forward ref)\", style=dashed, color=red]"
    ELSE "[label=\"imports\"]"

\* The edge statement of one import of a module.
ImportStatement(moduleName, imp) ==
    "  \"" \o EscapeName(moduleName) \o "\" -> \"" \o EscapeName(imp.name) \o "\" "
    \o EdgeStyle(imp) \o ";"

\* The edge statement of one dependency of a provider.
DependencyStatement(providerName, dep) ==
    "  \"" \o EscapeName(providerName) \o "\" -> \"" \o EscapeName(dep)
    \o "\" [color=blue, style=dashed];"

\* The three forEach loops over the mapping, each in insertion order.
RECURSIVE NodeStatements(_)
NodeStatements(entries) ==
    IF entries = <<>> THEN <<>>
    ELSE <<NodeStatement(Head(entries))>> \o NodeStatements(Tail(entries))

RECURSIVE ImportStatements(_)
ImportStatements(entries) ==
    IF entries = <<>> THEN <<>>
    ELSE [k \in 1..Len(Head(entries).imports) |->
             ImportStatement(Head(entries).name, Head(entries).imports[k])]
         \o ImportStatements(Tail(entries))

RECURSIVE ProviderStatements(_)
ProviderStatements(providers) ==
    IF providers = <<>> THEN <<>>
    ELSE [d \in 1..Len(Head(providers).dependencies) |->
             DependencyStatement(Head(providers).name, Head(providers).dependencies[d])]
         \o ProviderStatements(Tail(providers))

RECURSIVE DependencyStatements(_)
DependencyStatements(entries) ==
    IF entries = <<>> THEN <<>>
    ELSE ProviderStatements(Head(entries).providers) \o DependencyStatements(Tail(entries))

\* lines.join('\n')
RECURSIVE JoinLines(_)
JoinLines(lines) ==
    IF lines = <<>> THEN ""
    ELSE IF Len(lines) = 1 THEN lines[1]
    ELSE lines[1] \o "\n" \o JoinLines(Tail(lines))

\* The lines generate() pushes, in order.
GenerateLines(entries) ==
    <<"digraph {",
      "  rankdir=LR;",
      "  node [shape=box, style=filled, fillcolor=lightgray];",
      "">>
    \o NodeStatements(entries)
    \o <<"">>
    \o ImportStatements(entries)
    \o DependencyStatements(entries)
    \o <<"}">>

\* generate(): the lines pushed and the document returned.
Generate(entries) ==
    [lines |-> GenerateLines(entries), content |-> JoinLines(GenerateLines(entries))]

(***************************************************************************)
(* The analyzer on a project: analyze() scans the directory entries in     *)
(* traversal order, parsing every module file, then links.                 *)
(***************************************************************************)
\* Most module files of a project.
MaxFiles == 3

\* A module file { imports, providers, controllers } for class `name`.
ProjectModule(name, imports, providers, controllers) ==
    <<ClassDeclaration(name,
          <<ModuleDecorator(<<ModuleOptions(
                <<PropertyAssignment("imports", ArrayLiteralExpression(imports))>>,
                <<PropertyAssignment("providers", ArrayLiteralExpression(providers))>>,
                <<>>,
                <<PropertyAssignment("controllers", ArrayLiteralExpression(controllers))>>)>>)>>,
          <<>>)>>

\* The top-level classes of the module files of the project, beside the
\* library classes.
ProjectSources ==
    {ProjectModule("AppModule",
         <<Identifier("CatsModule"), Identifier("HttpModule")>>,
         <<Identifier("Logger")>>,
         <<Identifier("AppController")>>),
     ProjectModule("CatsModule",
         <<CallExpression(Identifier("forwardRef"), <<ArrowFunction(Identifier("AppModule"))>>)>>,
         <<Identifier("CatsService"),
           FactoryProvider(Identifier("CatsRepository"), <<Identifier("Logger")>>)>>,
         <<Identifier("CatsController")>>),
     ProjectModule("CatsModule", <<>>, <<Identifier("Logger")>>, <<>>),
     ProjectModule("DogsModule",
         <<Identifier("CatsModule"), Identifier("AppModule"), OtherExpression>>,
         <<FactoryProvider(StringLiteral("TOKEN"),
                           <<Identifier("CatsService"), StringLiteral("X")>>)>>,
         <<>>),
     ProjectModule("AppModule",
         <<CallExpression(PropertyAccessExpression(Identifier("TypeOrmModule"), "forRoot"),
                          <<>>)>>,
         <<>>, <<>>),
     ProjectModule("AppModule",
         <<CallExpression(PropertyAccessExpression(Identifier("TypeOrmModule"), "forFeature"),
                          <<EntityArray(2)>>),
           Identifier("Module_1")>>,
         <<>>, <<>>),
     ProjectModule("QuotedModule",
         <<Identifier("CatsModule")>>,
         <<FactoryProvider(StringLiteral("say \"hi\""), <<Identifier("Logger")>>)>>,
         <<>>),
     <<ClassDeclaration("AppModule", <<ModuleDecorator(<<>>)>>, <<>>)>>,
     <<ClassDeclaration("CatsModule", <<ModuleDecorator(<<Identifier("options")>>)>>, <<>>)>>,
     <<ClassDeclaration("UnknownModule", <<ModuleDecorator(<<ObjectLiteralExpression(<<>>)>>)>>,
                        <<>>)>>}

\* The name of the i-th directory entry that is a module file, and names of
\* entries that are not.
ModuleEntryName(i) == <<"m" \o ToString(i), "module", "ts">>

OtherEntryNames == {<<"cats", "service", "ts">>, <<"app", "module", "ts", "bak">>, <<"module", "ts">>}

\* path.join(dirPath, entry.name)
FullPath(parts) == "src/" \o JoinName(parts)

Init ==
    /\ sourceFile = NoSourceFile
    /\ parsed = NotParsed
    /\ modules = <<>>
    /\ providerArrays = <<>>
    /\ pc = "scanning"
    /\ scanned = <<>>
    /\ passes = <<>>
    /\ dot = NotGenerated
    /\ dependencyTree = NotCalled

\* DependencyAnalyzer.parseModule(filePath) on a file with the given classes.
AnalyzerRegisterModule(filePath, result) ==
    /\ scanned' = Append(scanned, [filePath |-> filePath,
                                   outcome |-> result.outcome,
                                   metadata |-> result.metadata])
    /\ IF result.outcome = "throw"
       THEN /\ pc' = "failed"
            /\ UNCHANGED <<modules, providerArrays>>
       ELSE IF result.outcome = "module" /\ Truthy(result.metadata.name)
       THEN /\ providerArrays' = Append(providerArrays, result.metadata.providers)
            /\ modules' = ModulesSet(modules, result.metadata.name,
                              WithField([result.metadata EXCEPT
                                             !.providers = Len(providerArrays) + 1],
                                        "filePath", filePath))
            /\ UNCHANGED pc
       ELSE UNCHANGED <<modules, providerArrays, pc>>

AnalyzerParseModule(filePath, classes) ==
    AnalyzerRegisterModule(filePath,
        ParseModule(SourceFile(filePath, classes \o LibraryClasses, LibraryImports)))

\* One turn of the loop of scanDirectory, on the next entry of the traversal:
\* a module file is parsed and registered, any other file is passed over.
ScanDirectoryEntry ==
    /\ pc = "scanning"
    /\ Len(scanned) < MaxFiles
    /\ \E parts \in {ModuleEntryName(Len(scanned) + 1)} \cup OtherEntryNames :
           IF IsNestModule(parts)
           THEN \E classes \in ProjectSources :
                    AnalyzerParseModule(FullPath(parts), classes)
           ELSE UNCHANGED <<modules, providerArrays, pc, scanned>>
    /\ UNCHANGED <<sourceFile, parsed, passes, dot, dependencyTree>>

\* One run of resolveModuleDependencies over this.modules.
Link ==
    LET linked == LinkedGraph(modules, providerArrays)
    IN /\ modules' = linked.modules
       /\ providerArrays' = linked.providerArrays
       /\ passes' = (IF passes = <<>> THEN <<GraphView(modules, providerArrays)>> ELSE passes)
                    \o <<GraphView(linked.modules, linked.providerArrays)>>

\* analyze(): the scan is over, the graph is linked and returned.
ResolveModuleDependencies ==
    /\ pc = "scanning"
    /\ Link
    /\ pc' = "linked"
    /\ UNCHANGED <<sourceFile, parsed, scanned, dot, dependencyTree>>

\* new DotVisualizer(modules).generate() on the mapping analyze() returned.
DotVisualizerGenerate ==
    /\ pc = "linked"
    /\ dot' = Generate(GraphView(modules, providerArrays))
    /\ pc' = "generated"
    /\ UNCHANGED <<sourceFile, parsed, modules, providerArrays, scanned, passes,
                   dependencyTree>>

Next == ScanDirectoryEntry \/ ResolveModuleDependencies \/ DotVisualizerGenerate

Spec == Init /\ [][Next]_vars

(***************************************************************************)
(* The linker on its own: resolveModuleDependencies run on a mapping, and  *)
(* run again on its own result.                                            *)
(***************************************************************************)
\* Most providers of a mapping.
MaxLinkProviders == 2

ProviderNames == {"CatsService", "CATS_TOKEN", "Logger"}

LinkDependencyLists == {<<>>, <<"Logger">>, <<"Logger", "CATS_TOKEN">>}

LinkProviders ==
    {[name |-> n, type |-> "class", dependencies |-> d, isInjectable |-> FALSE, provide |-> t] :
        n \in ProviderNames, t \in ProviderNames, d \in LinkDependencyLists}

UnlinkedImport(name) ==
    [name |-> name, path |-> "./" \o name, isAsync |-> FALSE, dependencies |-> <<>>]

\* The entries of the mapping: AppModule then CatsModule.
LinkEntries(appImports, appProviders, catsImports) ==
    <<[name |-> "AppModule", filePath |-> "src/app.module.ts",
       imports |-> appImports, exports |-> <<>>, providers |-> appProviders,
       controllers |-> <<"AppController">>, entityCount |-> 0],
      [name |-> "CatsModule", filePath |-> "src/cats.module.ts",
       imports |-> catsImports, exports |-> <<>>, providers |-> 2,
       controllers |-> <<>>, entityCount |-> 0]>>

InitLinker ==
    /\ sourceFile = NoSourceFile
    /\ parsed = NotParsed
    /\ pc = "unlinked"
    /\ scanned = <<>>
    /\ passes = <<>>
    /\ dot = NotGenerated
    /\ dependencyTree = NotCalled
    /\ \E k1 \in 0..MaxLinkProviders :
       \E k2 \in 0..(MaxLinkProviders - k1) :
       \E p1 \in [1..k1 -> LinkProviders] :
       \E p2 \in [1..k2 -> LinkProviders] :
           /\ providerArrays = <<p1, p2>>
           /\ modules = LinkEntries(<<UnlinkedImport("CatsModule"),
                                      UnlinkedImport("HttpModule")>>, 1,
                                    <<UnlinkedImport("AppModule")>>)

\* resolveModuleDependencies() on the mapping as it stands: the first run,
\* then a second run on the linked graph.
ResolveModuleDependenciesAgain ==
    /\ pc \in {"unlinked", "linked once"}
    /\ Link
    /\ pc' = IF pc = "unlinked" THEN "linked once" ELSE "linked twice"
    /\ UNCHANGED <<sourceFile, parsed, scanned, dot, dependencyTree>>

NextLinker == ResolveModuleDependenciesAgain

SpecLinker == InitLinker /\ [][NextLinker]_vars

(***************************************************************************)
(* Enrichment on its own: getProviderDependencyTree(name) called, with its *)
(* default empty visited set, on a parser whose providerCache holds any    *)
(* providers, those that depend on themselves or on each other included.   *)
(***************************************************************************)
\* Most direct dependencies of a cached provider.
MaxTreeDependencies == 2

TreeNames == {"CatsService", "CatsRepository", "Logger"}

TreeProvider(name, dependencies) ==
    [name |-> name, type |-> "class", dependencies |-> dependencies,
     isInjectable |-> FALSE, provide |-> name]

\* The caches: CatsService and CatsRepository cached, Logger cached or not.
ProviderCaches ==
    LET lists == SeqsUpTo(TreeNames, MaxTreeDependencies)
    IN {CacheSet(CacheSet(EmptyCache, "CatsService", TreeProvider("CatsService", d1)),
                 "CatsRepository", TreeProvider("CatsRepository", d2)) :
            d1 \in lists, d2 \in lists}
       \cup
       {CacheSet(CacheSet(CacheSet(EmptyCache, "CatsService",
                                   TreeProvider("CatsService", d1)),
                          "CatsRepository", TreeProvider("CatsRepository", d2)),
                 "Logger", TreeProvider("Logger", d3)) :
            d1 \in lists, d2 \in lists, d3 \in lists}

InitEnrichment ==
    /\ sourceFile = NoSourceFile
    /\ \E cache \in ProviderCaches :
           parsed = [outcome |-> "pending", providerCache |-> cache]
    /\ modules = <<>>
    /\ providerArrays = <<>>
    /\ pc = "enrichment"
    /\ scanned = <<>>
    /\ passes = <<>>
    /\ dot = NotGenerated
    /\ dependencyTree = NotCalled

\* this.getProviderDependencyTree(providerName), as enrichment calls it.
GetProviderDependencyTreeCall ==
    /\ pc = "enrichment"
    /\ dependencyTree = NotCalled
    /\ \E providerName \in TreeNames :
           dependencyTree' =
               [providerName |-> providerName,
                dependencies |->
                    GetProviderDependencyTree(parsed.providerCache, providerName, {}).deps]
    /\ UNCHANGED <<sourceFile, parsed, modules, providerArrays, pc, scanned, passes, dot>>

NextEnrichment == GetProviderDependencyTreeCall

SpecEnrichment == InitEnrichment /\ [][NextEnrichment]_vars

(***************************************************************************)
(* What the parser was given, read off the source file: the options object *)
(* of the module class's @Module(...) call and the elements of its arrays. *)
(***************************************************************************)
\* The object-literal first argument of the module decorator, or
\* `undefinedObject` when the file has no module class or no such argument.
ModuleOptionsOf(file) ==
    LET moduleClass == FindModuleClass(file)
        decorator == FindDecorator(moduleClass, "Module")
        args == decorator.expression.arguments
    IN IF moduleClass = undefinedObject THEN undefinedObject
       ELSE IF args = <<>> THEN undefinedObject
       ELSE IF ~IsObjectLiteralExpression(args[1]) THEN undefinedObject
       ELSE args[1]

HasField(node, propertyName) ==
    \E i \in 1..Len(node.properties) : node.properties[i].name = propertyName

FieldOf(node, propertyName) ==
    node.properties[CHOOSE i \in 1..Len(node.properties) :
                        /\ node.properties[i].name = propertyName
                        /\ \A j \in 1..(i - 1) : node.properties[j].name # propertyName]
        .initializer

\* The elements of the array literal held by an options field; none when the
\* field is absent or holds no array literal.
ArrayElementsOf(file, propertyName) ==
    LET options == ModuleOptionsOf(file)
    IN IF options = undefinedObject THEN <<>>
       ELSE IF ~HasField(options, propertyName) THEN <<>>
       ELSE IF ~IsArrayLiteralExpression(FieldOf(options, propertyName)) THEN <<>>
       ELSE FieldOf(options, propertyName).elements

ParsedModule == parsed.outcome = "module"

(***************************************************************************)
(* C1  Extraction never raises: whatever the shape of the decorator        *)
(* argument and of the array elements, parseModule() returns a module      *)
(* record or null.                                                         *)
(***************************************************************************)
C1_ExtractionNeverThrows == parsed.outcome \in {"pending", "null", "module"}

(***************************************************************************)
(* C6  Provider type classification: an object-literal provider with a     *)
(* provide field is 'class' if it has a useClass field, else 'factory' if  *)
(* it has a useFactory field, else 'value' if it has a useValue field,     *)
(* whatever the fields hold; a bare identifier is 'class'.  Stated on the  *)
(* arrays of which every claimed element produced a record, so record i is *)
(* the record of claimed element i.                                        *)
(***************************************************************************)
IsClaimedProviderElement(e) ==
    IsIdentifier(e) \/ (IsObjectLiteralExpression(e) /\ HasField(e, "provide"))

ClaimedProviderType(e) ==
    IF IsIdentifier(e) THEN "class"
    ELSE IF HasField(e, "useClass") THEN "class"
    ELSE IF HasField(e, "useFactory") THEN "factory"
    ELSE IF HasField(e, "useValue") THEN "value"
    ELSE "unclaimed"

C6_TypeByFieldPresence ==
    ParsedModule =>
        LET claimed == SelectSeq(ArrayElementsOf(sourceFile, "providers"),
                                 IsClaimedProviderElement)
            providers == parsed.metadata.providers
        IN Len(providers) = Len(claimed) =>
               \A i \in 1..Len(claimed) :
                   ClaimedProviderType(claimed[i]) # "unclaimed" =>
                       providers[i].type = ClaimedProviderType(claimed[i])

(***************************************************************************)
(* C7  (as claimed) The provider list is as long as the providers array    *)
(* less exactly the object-literal elements that have no provide field.    *)
(***************************************************************************)
C7_LengthLessMissingProvide ==
    ParsedModule =>
        LET elements == ArrayElementsOf(sourceFile, "providers")
            malformed == {i \in 1..Len(elements) :
                            /\ IsObjectLiteralExpression(elements[i])
                            /\ ~HasField(elements[i], "provide")}
        IN Len(parsed.metadata.providers) = Len(elements) - Cardinality(malformed)

(***************************************************************************)
(* C7  (amended) The provider list holds one record, in source order, for  *)
(* every element that is a bare identifier or an object literal whose      *)
(* provide field is an identifier or a non-empty string literal, named     *)
(* after that identifier or string; every other element is dropped.        *)
(***************************************************************************)
IsRecognizedProviderElement(e) ==
    \/ IsIdentifier(e)
    \/ /\ IsObjectLiteralExpression(e)
       /\ HasField(e, "provide")
       /\ \/ IsIdentifier(FieldOf(e, "provide"))
          \/ IsStringLiteral(FieldOf(e, "provide")) /\ FieldOf(e, "provide").text # ""

RecognizedProviderName(e) ==
    IF IsIdentifier(e) THEN e.text ELSE FieldOf(e, "provide").text

C7_OneRecordPerRecognizedElement ==
    ParsedModule =>
        LET kept == SelectSeq(ArrayElementsOf(sourceFile, "providers"),
                              IsRecognizedProviderElement)
            providers == parsed.metadata.providers
        IN /\ Len(providers) = Len(kept)
           /\ \A i \in 1..Len(kept) : providers[i].name = RecognizedProviderName(kept[i])

\* A two-element array of which one element, neither an identifier nor an
\* object literal, was dropped and the other produced a record.
C7_Witness ==
    /\ ParsedModule
    /\ LET elements == ArrayElementsOf(sourceFile, "providers")
       IN /\ Len(elements) = 2
          /\ Len(parsed.metadata.providers) = 1
          /\ \E i \in 1..2 : /\ ~IsIdentifier(elements[i])
                             /\ ~IsObjectLiteralExpression(elements[i])

(***************************************************************************)
(* C8  A factory provider's direct dependencies are its declared inject    *)
(* tokens, element for element and in order, string tokens as well as      *)
(* identifier tokens, and none when it declares no inject field; a value   *)
(* provider has none.  The direct dependencies are read from the record's  *)
(* inject field, which enrichment leaves alone.                            *)
(***************************************************************************)
DeclaredInjectTokens(e) ==
    IF HasField(e, "inject") /\ IsArrayLiteralExpression(FieldOf(e, "inject"))
    THEN LET tokens == SelectSeq(FieldOf(e, "inject").elements,
                                 LAMBDA t : IsIdentifier(t) \/ IsStringLiteral(t))
         IN [i \in 1..Len(tokens) |-> tokens[i].text]
    ELSE <<>>

IsFactoryElement(e) ==
    /\ IsObjectLiteralExpression(e)
    /\ HasField(e, "provide")
    /\ HasField(e, "useFactory")
    /\ ~HasField(e, "useClass")

IsValueElement(e) ==
    /\ IsObjectLiteralExpression(e)
    /\ HasField(e, "provide")
    /\ HasField(e, "useValue")
    /\ ~HasField(e, "useClass")
    /\ ~HasField(e, "useFactory")

C8_FactoryDependenciesAreInjectTokens ==
    ParsedModule =>
        LET claimed == SelectSeq(ArrayElementsOf(sourceFile, "providers"),
                                 IsClaimedProviderElement)
            providers == parsed.metadata.providers
        IN Len(providers) = Len(claimed) =>
               \A i \in 1..Len(claimed) :
                   /\ IsFactoryElement(claimed[i]) =>
                          providers[i].inject = DeclaredInjectTokens(claimed[i])
                   /\ IsValueElement(claimed[i]) => providers[i].inject = <<>>

(***************************************************************************)
(* C9  Forward-reference imports: an element forwardRef(() => C), C a bare *)
(* identifier, gives an import named C with isForwardReference = true;     *)
(* every other element gives an import without isForwardReference; a       *)
(* forwardRef call with any other argument gives a placeholder named       *)
(* UnknownModule_<n>.                                                      *)
(***************************************************************************)
IsForwardRefCall(e) ==
    IsCallExpression(e) /\ IsIdentifier(e.expression) /\ e.expression.text = "forwardRef"

IsForwardRefOfIdentifier(e) ==
    /\ IsForwardRefCall(e)
    /\ e.arguments # <<>>
    /\ IsArrowFunction(e.arguments[1])
    /\ IsIdentifier(e.arguments[1].body)

ClaimedEntityCountOf(e) ==
    IF ~IsCallExpression(e) THEN 0
    ELSE IF ~IsPropertyAccessExpression(e.expression) THEN 0
    ELSE IF ~IsIdentifier(e.expression.expression) THEN 0
    ELSE LET receiver == e.expression.expression.text
             method == e.expression.name
             first == IF e.arguments = <<>> THEN undefinedObject ELSE e.arguments[1]
         IN IF /\ method = "forFeature"
               /\ receiver \in {"TypeOrmModule", "MongooseModule", "SequelizeModule"}
               /\ IsArrayLiteralExpression(first)
            THEN Len(first.elements)
            ELSE IF /\ method \in {"forRoot", "forRootAsync"}
                    /\ receiver = "TypeOrmModule"
                    /\ IsObjectLiteralExpression(first)
                    /\ HasField(first, "entities")
                    /\ IsArrayLiteralExpression(FieldOf(first, "entities"))
                 THEN Len(FieldOf(first, "entities").elements)
                 ELSE 0

RECURSIVE ClaimedEntityCount(_)
ClaimedEntityCount(elements) ==
    IF elements = <<>> THEN 0
    ELSE ClaimedEntityCountOf(Head(elements)) + ClaimedEntityCount(Tail(elements))

C10_EntityCountIsSumOfRegistrations ==
    (parsed # NotParsed /\ FindModuleClass(sourceFile) # undefinedObject) =>
        /\ ParsedModule
        /\ parsed.metadata.entityCount >= 0
        /\ parsed.metadata.entityCount =
               ClaimedEntityCount(ArrayElementsOf(sourceFile, "imports"))

(***************************************************************************)
(* The analyzer's graph, read off the recorded passes: passes[p] is the    *)
(* graph before the p-th run of the linker, passes[p + 1] the graph after. *)
(***************************************************************************)
\* The providers of a graph, modules in mapping order, providers in list order.
RECURSIVE AllProviders(_)
AllProviders(graph) ==
    IF graph = <<>> THEN <<>>
    ELSE Head(graph).providers \o AllProviders(Tail(graph))

\* What the claim says a dependency entry d becomes.
ClaimedResolution(graph, d) ==
    LET all == AllProviders(graph)
        hits == {i \in 1..Len(all) : all[i].name = d \/ all[i].provide = d}
    IN IF hits = {} THEN d
       ELSE all[CHOOSE i \in hits : \A j \in hits : i <= j].name

\* The import fields and dependency lists of a graph, the parts the linker writes.
LinkedFields(graph) ==
    [m \in 1..Len(graph) |->
        [imports |-> [k \in 1..Len(graph[m].imports) |->
                         [path |-> graph[m].imports[k].path,
                          module |-> graph[m].imports[k].module]],
         dependencies |-> [k \in 1..Len(graph[m].providers) |->
                              graph[m].providers[k].dependencies]]]

C3_ImportLinking ==
    pc = "linked" =>
        LET before == passes[1]
            after == passes[2]
        IN /\ Len(after) = Len(before)
           /\ \A m \in 1..Len(after) :
                  /\ Len(after[m].imports) = Len(before[m].imports)
                  /\ \A k \in 1..Len(after[m].imports) :
                         LET imp == after[m].imports[k]
                             keys == {i \in 1..Len(before) : before[i].name = imp.name}
                         IN /\ imp.name = before[m].imports[k].name
                            /\ IF keys # {}
                               THEN \A i \in keys :
                                        /\ imp.path = after[i].filePath
                                        /\ imp.module =
                                               [name |-> after[i].name,
                                                providers |-> after[i].providers,
                                                controllers |-> after[i].controllers]
                               ELSE /\ imp.path = undefined
                                    /\ imp.module = undefinedObject

\* A linked project in which one import was resolved to a registered module
\* and another, whose path the extractor had resolved, names no module.
C3_Witness ==
    /\ pc = "linked"
    /\ \E m \in 1..Len(passes[2]) :
       \E k \in 1..Len(passes[2][m].imports) :
           /\ passes[2][m].imports[k].module # undefinedObject
           /\ passes[2][m].imports[k].module.providers # <<>>
    /\ \E m \in 1..Len(passes[2]) :
       \E k \in 1..Len(passes[2][m].imports) :
           /\ "path" \in DOMAIN passes[1][m].imports[k]
           /\ passes[1][m].imports[k].path # undefined
           /\ passes[2][m].imports[k].path = undefined
           /\ passes[2][m].imports[k].module = undefinedObject

\* C4: Provider dependency linking: a run of the linker replaces every entry
\* d of every provider's dependencies by the name of the first provider,
\* modules in mapping order and providers in list order, whose name or
\* provide is d, and keeps d when no provider matches; the lists keep their
\* length and order.
C4_DependencyLinking ==
    \A p \in 1..(Len(passes) - 1) :
        LET before == passes[p]
            after == passes[p + 1]
        IN /\ Len(after) = Len(before)
           /\ \A m \in 1..Len(after) :
                  /\ Len(after[m].providers) = Len(before[m].providers)
                  /\ \A k \in 1..Len(after[m].providers) :
                         LET deps == before[m].providers[k].dependencies
                         IN after[m].providers[k].dependencies =
                                [d \in 1..Len(deps) |-> ClaimedResolution(before, deps[d])]

\* A graph linked once in which a two-entry list kept its unmatched first
\* entry and had its second entry, matched by two providers of different
\* names, replaced by the name of the first of them.
C4_Witness ==
    /\ pc = "linked once"
    /\ \E m \in 1..Len(passes[2]) :
       \E k \in 1..Len(passes[2][m].providers) :
           LET deps == passes[1][m].providers[k].dependencies
               all == AllProviders(passes[1])
               linked == passes[2][m].providers[k].dependencies
           IN /\ Len(deps) = 2
              /\ \A i \in 1..Len(all) : all[i].name # deps[1] /\ all[i].provide # deps[1]
              /\ linked[1] = deps[1]
              /\ \E i, j \in 1..Len(all) :
                     /\ i < j
                     /\ all[i].provide = deps[2]
                     /\ all[j].name = deps[2]
                     /\ all[i].name # all[j].name
                     /\ linked[2] = all[i].name
              /\ linked[2] # deps[2]

\* The scanned files that yielded a module, by position in the traversal.
Registrations == {i \in 1..Len(scanned) : scanned[i].outcome = "module"}

\* The record the last file yielding a module of that name registered.
LastRegistration(name) ==
    LET last == CHOOSE i \in Registrations :
                    /\ scanned[i].metadata.name = name
                    /\ \A j \in Registrations :
                           scanned[j].metadata.name = name => j <= i
    IN WithField(scanned[last].metadata, "filePath", scanned[last].filePath)

\* The mapping as the linker finds it.
MappingBeforeLinking ==
    IF passes = <<>> THEN GraphView(modules, providerArrays) ELSE passes[1]

\* C5: Last registration wins: the mapping has one entry per distinct module
\* name among the files scanned, the entry of a name is the record, with its
\* filePath, of the last file that yielded a module of that name, and the
\* linker runs on the mapping of all the files scanned.
C5_LastRegistrationWins ==
    LET names == {scanned[i].metadata.name : i \in Registrations}
        mapping == MappingBeforeLinking
    IN /\ Len(mapping) = Cardinality(names)
       /\ {mapping[i] : i \in 1..Len(mapping)} = {LastRegistration(n) : n \in names}
       /\ pc = "linked" => Len(passes) = 2 /\ Len(passes[2]) = Len(mapping)

\* A linked project in which two files yielded different modules of one name
\* and the mapping holds the record of the later file.
C5_Witness ==
    /\ pc = "linked"
    /\ \E i, j \in Registrations :
           /\ i < j
           /\ scanned[i].metadata.name = scanned[j].metadata.name
           /\ scanned[i].metadata.providers # scanned[j].metadata.providers
           /\ \E m \in 1..Len(passes[1]) :
                  /\ passes[1][m].name = scanned[j].metadata.name
                  /\ passes[1][m].filePath = scanned[j].filePath
                  /\ passes[1][m].providers = scanned[j].metadata.providers

\* A record of createEmptyModuleMetadata: the one record parseModule returns
\* without a filePath of its own, the analyzer adding the file's path on
\* registration.
IsPlaceholderRecord(metadata) == "filePath" \notin DOMAIN metadata

\* C11: Every file whose module decorator has no object-literal argument
\* yields an empty module record under a generated placeholder name, and that
\* name differs from the name of every other module record of the same
\* analysis run, so that each such file keeps its own entry in the mapping.
C11_PlaceholderNamesAreUnique ==
    \A i \in Registrations :
        IsPlaceholderRecord(scanned[i].metadata) =>
            /\ scanned[i].metadata.imports = <<>>
            /\ scanned[i].metadata.exports = <<>>
            /\ scanned[i].metadata.providers = <<>>
            /\ scanned[i].metadata.controllers = <<>>
            /\ scanned[i].metadata.entityCount = 0
            /\ \A j \in Registrations \ {i} :
                   scanned[j].metadata.name # scanned[i].metadata.name
            /\ \E m \in 1..Len(MappingBeforeLinking) :
                   /\ MappingBeforeLinking[m].name = scanned[i].metadata.name
                   /\ MappingBeforeLinking[m].filePath = scanned[i].filePath

(***************************************************************************)
(* The statements the diagram is said to hold, read off the mapping.       *)
(***************************************************************************)
\* The import records of a graph as (source, target, forward) edges, and the
\* (provider, dependency) pairs, both in mapping order.
RECURSIVE ClaimedImportEdges(_)
ClaimedImportEdges(graph) ==
    IF graph = <<>> THEN <<>>
    ELSE [k \in 1..Len(Head(graph).imports) |->
             [source |-> Head(graph).name,
              target |-> Head(graph).imports[k].name,
              forward |-> /\ "isForwardReference" \in DOMAIN Head(graph).imports[k]
                          /\ Head(graph).imports[k].isForwardReference]]
         \o ClaimedImportEdges(Tail(graph))

RECURSIVE ClaimedDependencyEdges(_)
ClaimedDependencyEdges(providers) ==
    IF providers = <<>> THEN <<>>
    ELSE [d \in 1..Len(Head(providers).dependencies) |->
             [source |-> Head(providers).name,
              target |-> Head(providers).dependencies[d]]]
         \o ClaimedDependencyEdges(Tail(providers))

ClaimedProviderEdges(graph) == ClaimedDependencyEdges(AllProviders(graph))

\* A DOT identifier: the name in double quotes, its own quotes escaped.
Quoted(name) == "\"" \o EscapeName(name) \o "\""

StartsWith(text, prefix) ==
    Len(text) >= Len(prefix) /\ SubSeq(text, 1, Len(prefix)) = prefix

EndsWith(text, suffix) ==
    /\ Len(text) >= Len(suffix)
    /\ SubSeq(text, Len(text) - Len(suffix) + 1, Len(text)) = suffix

ForwardRefStyle == "[label=\"imports (forward ref)\", style=dashed, color=red]"

ImportsStyle == "[label=\"imports\"]"

DependencyStyle == "[color=blue, style=dashed]"

\* C12: Diagram rendering: generate() emits, after its header, exactly one
\* node statement per entry of the mapping, then exactly one import edge per
\* import record (module name -> import name), in the dashed red forward-ref
\* style exactly when the import's isForwardReference is set and in the plain
\* imports style otherwise, then exactly one edge per (provider, dependency
\* entry) pair, each group in mapping order, and nothing else but the footer.
C12_DiagramRendering ==
    pc = "generated" =>
        LET graph == passes[2]
            lines == dot.lines
            n == Len(graph)
            imports == ClaimedImportEdges(graph)
            deps == ClaimedProviderEdges(graph)
        IN /\ Len(lines) = 4 + n + 1 + Len(imports) + Len(deps) + 1
           /\ lines[1] = "digraph {"
           /\ lines[Len(lines)] = "}"
           /\ \A i \in 1..n :
                  /\ StartsWith(lines[4 + i], "  " \o Quoted(graph[i].name) \o " [label=\"")
                  /\ EndsWith(lines[4 + i], "\"];")
           /\ lines[5 + n] = ""
           /\ \A k \in 1..Len(imports) :
                  lines[5 + n + k] =
                      "  " \o Quoted(imports[k].source) \o " -> " \o Quoted(imports[k].target)
                      \o " " \o (IF imports[k].forward THEN ForwardRefStyle ELSE ImportsStyle)
                      \o ";"
           /\ \A k \in 1..Len(deps) :
                  lines[5 + n + Len(imports) + k] =
                      "  " \o Quoted(deps[k].source) \o " -> " \o Quoted(deps[k].target)
                      \o " " \o DependencyStyle \o ";"
           /\ dot.content = JoinLines(lines)

\* A diagram of two modules or more holding a forward-reference edge, a plain
\* import edge and the edge of a provider whose name holds a double quote.
C12_Witness ==
    /\ pc = "generated"
    /\ Len(passes[2]) >= 2
    /\ \E i, j, k \in 1..Len(dot.lines) :
           /\ i < j
           /\ j < k
           /\ EndsWith(dot.lines[i], ForwardRefStyle \o ";")
           /\ EndsWith(dot.lines[j], ImportsStyle \o ";")
           /\ dot.lines[k] =
                  "  \"say \\\"hi\\\"\" -> \"Logger\" " \o DependencyStyle \o ";"

\* The identifier a property-access chain starts from: X for X.Y.forRoot;
\* `undefined` when the chain starts from no identifier.
RECURSIVE LeftmostRoot(_)
LeftmostRoot(node) ==
    IF IsIdentifier(node) THEN node.text
    ELSE IF IsPropertyAccessExpression(node) THEN LeftmostRoot(node.expression)
    ELSE undefined

\* C13: Async-call imports: every imports element that is a call expression
\* other than a forwardRef call yields an import with isAsync = true, named
\* after the leftmost root identifier of the callee's property-access chain
\* (X for X.forRoot(...) and for X.Y.forRoot(...)), or after the callee when
\* that is a bare identifier.
C13_AsyncImportNamedAfterLeftmostRoot ==
    ParsedModule =>
        LET elements == ArrayElementsOf(sourceFile, "imports")
            imports == parsed.metadata.imports
        IN /\ Len(imports) = Len(elements)
           /\ \A i \in 1..Len(elements) :
                  (IsCallExpression(elements[i]) /\ ~IsForwardRefCall(elements[i])) =>
                      /\ imports[i].isAsync = TRUE
                      /\ LeftmostRoot(elements[i].expression) # undefined =>
                             imports[i].name = LeftmostRoot(elements[i].expression)

(***************************************************************************)
(* Reachability through a provider cache.                                  *)
(***************************************************************************)
\* The names a cached provider depends on directly; none for a name that is
\* not cached.
DirectDependencies(cache, name) ==
    IF name \in DOMAIN cache
    THEN {cache[name].dependencies[i] : i \in 1..Len(cache[name].dependencies)}
    ELSE {}

\* names, with everything reachable from them in at most k edges.
RECURSIVE ReachableWithin(_, _, _)
ReachableWithin(cache, names, k) ==
    IF k = 0 THEN names
    ELSE ReachableWithin(cache,
                         names \cup UNION {DirectDependencies(cache, n) : n \in names},
                         k - 1)

\* The names reachable from a name by one direct-dependency edge or more.
ReachableFrom(cache, name) ==
    ReachableWithin(cache, DirectDependencies(cache, name), Cardinality(TreeNames))

\* C14: Enrichment closure: for every provider cache, those with providers
\* depending on themselves or on each other included, the top-level call
\* getProviderDependencyTree(p) returns, without duplicates, exactly the
\* names reachable from p by one or more direct-dependency edges through the
\* cache, names that are not cached being leaves: the visited-set cutoff
\* removes no reachable name.
C14_DependencyTreeIsReachableSet ==
    dependencyTree # NotCalled =>
        LET deps == dependencyTree.dependencies
        IN /\ \A i, j \in 1..Len(deps) : i # j => deps[i] # deps[j]
           /\ {deps[i] : i \in 1..Len(deps)} =
                  ReachableFrom(parsed.providerCache, dependencyTree.providerName)

\* A call on a provider that is on a cycle with another cached provider, and
\* reaches a third name only through that provider: the call on the cycle is
\* cut off, and the result holds all three names, the provider's own among
\* them.
C14_Witness ==
    /\ dependencyTree # NotCalled
    /\ dependencyTree.providerName = "CatsService"
    /\ parsed.providerCache["CatsService"].dependencies = <<"CatsRepository">>
    /\ parsed.providerCache["CatsRepository"].dependencies = <<"CatsService", "Logger">>
    /\ dependencyTree.dependencies = <<"CatsRepository", "CatsService", "Logger">>

\* C15: Every provider record the extractor produces has provide equal to
\* name, and so, on every mapping built by scanning files, the linking pass
\* changes no entry of any provider's dependencies list.
C15_ProvideIsNameAndLinkingKeepsDependencies ==
    /\ \A i \in Registrations :
       \A k \in 1..Len(scanned[i].metadata.providers) :
           scanned[i].metadata.providers[k].provide = scanned[i].metadata.providers[k].name
    /\ Len(passes) >= 2 =>
           /\ Len(passes[2]) = Len(passes[1])
           /\ \A m \in 1..Len(passes[2]) :
                  /\ Len(passes[2][m].providers) = Len(passes[1][m].providers)
                  /\ \A k \in 1..Len(passes[2][m].providers) :
                         /\ passes[1][m].providers[k].provide = passes[1][m].providers[k].name
                         /\ passes[2][m].providers[k].dependencies =
                                passes[1][m].providers[k].dependencies

\* A linked project in which a provider written as an object literal depends
\* on a name that a provider of another module carries, so that the linker
\* found a record for the entry, and on nothing else.
C15_Witness ==
    /\ Len(passes) >= 2
    /\ \E m, n \in 1..Len(passes[2]) :
       \E k \in 1..Len(passes[2][m].providers) :
           /\ m # n
           /\ passes[2][m].providers[k].type = "factory"
           /\ passes[2][m].providers[k].dependencies # <<>>
           /\ \A d \in 1..Len(passes[2][m].providers[k].dependencies) :
              \E j \in 1..Len(passes[1][n].providers) :
                  passes[1][n].providers[j].name = passes[2][m].providers[k].dependencies[d]

====
